---------------------------- MODULE Spec2Model ----------------------------
(***************************************************************************)
(* The useElmish hook of react-elm (src/src/useElmish.ts) as a state       *)
(* machine.                                                                *)
(*                                                                         *)
(* The hook body runs on every render, but dispatch and execCmd are        *)
(* memoized with an empty dependency list, so the closure variables        *)
(* reentered, buffer, currentModel and initializedModel that they use are  *)
(* those of the first render.  The host framework is modelled by the       *)
(* useState cell (model, stateQueue), by the render counter and by the     *)
(* mount effect.  Application code (init, update, the effects, the         *)
(* subscription) is nondeterministic: every step it can take is an action. *)
(*                                                                         *)
(* The two hooks are installed together or not at all: neither reads what *)
(* the other does.                                                         *)
(*                                                                         *)
(* Five specifications:                                                    *)
(*   Spec       init returns a model object; update is a function; the     *)
(*              optional hooks (LoggerService, dispatchMiddleware) are     *)
(*              absent or return normally.                                 *)
(*   SpecFalsy  init returns a falsy model, the one way a dispatcher can   *)
(*              be called while initializedModel is still unset.           *)
(*   SpecHooks  as Spec, and an installed hook may throw.                  *)
(*   SpecMap    update is a function or a map of handlers, and messages    *)
(*              have names with and without a handler.                     *)
(*   SpecProps  later renders pass other props and update options.         *)
(***************************************************************************)
EXTENDS Integers, Sequences, FiniteSets, TLC

\* ------------------------------------------------------------ bounds
MaxMsgs == 3        \* dispatch calls per run
MaxCmdLen == 2      \* effects in one command list
MaxRenders == 3     \* invocations of the hook body

Keys == {"a", "b"}
Vals == {1}

\* ------------------------------------------------------------ values
\* A JavaScript object: its identity (ref) and its own properties.
Obj(ref, props) == [ref |-> ref, props |-> props]
Empty == [k \in {} |-> 0]
Null == Obj("null", Empty)

\* The partial models an update can build: every assignment of some keys.
Partials == UNION {[D -> Vals] : D \in SUBSET Keys}

\* The model init(props) returns in Spec.
InitProps == [k \in Keys |-> 0]

\* { ...a, ...b }
Merge(a, b) ==
    [k \in (DOMAIN a) \cup (DOMAIN b) |-> IF k \in DOMAIN b THEN b[k] ELSE a[k]]

\* The update option (line 14): a function, or an object whose own properties
\* are the handlers, by message name.
UpdateFunction == [type |-> "function", own |-> {}]
UpdateMap(handlers) == [type |-> "object", own |-> handlers]

\* A property name every object inherits from Object.prototype.
ObjectPrototype == {"toString"}

\* The props option: an object.
PropsVals == {[id |-> 1], [id |-> 2]}

VARIABLES
    \* host framework
    model,            \* the useState cell
    stateQueue,       \* setModel calls not yet applied by a render
    rendered,         \* the model the latest render read from useState
    renders,          \* invocations of the hook body so far
    dirty,            \* a setModel call was made during the render phase
    mounted,          \* "no", "yes", "gone"
    latest,           \* the props and update options passed to the latest render
    dispatchRef,      \* the render that created the dispatcher the hook returned
    \* configuration
    initResult,       \* the model init(props) returns
    subscription,     \* is a subscription passed
    LoggerService,    \* is a logger installed
    dispatchMiddleware, \* is a middleware installed
    update,           \* the update option of the first render
    props,            \* the props option of the first render
    \* closure of the first render
    initializedModel,
    reentered,
    buffer,
    currentModel,
    \* the outermost dispatch call in progress
    pc,               \* "idle", "update" (inside callUpdate), "effect"
    nextMsg,
    modified,
    cmdLen,           \* length of the command list being executed
    cmdIdx,           \* the effect of it that is running
    \* execCmd called by the hook body or the mount effect
    topPc,            \* "none", "init", "sub"
    topLen,
    topIdx,
    destructor,       \* the subscription returned a cleanup function
    \* observations
    nDispatched,      \* dispatch calls so far; message k is the k-th call
    ignored,          \* dispatch calls that returned at line 45
    processed,        \* messages handed to callUpdate, in order
    called,           \* effects invoked of the running command list
    effThrew,         \* effects of it that threw
    topCalled,        \* effects invoked of the running init/subscription list
    initCalls,        \* calls of init
    initCmdRuns,      \* non-empty initial command lists executed
    subCalls,         \* calls of the subscription
    subArg,           \* the model the subscription received
    subCmdRuns,       \* non-empty subscription command lists executed
    destructorCalls,
    mwCalls,          \* messages passed to dispatchMiddleware
    mwSeen,           \* the messages queued or processed when it was last called
    names,            \* names[k]: the name of message k
    merged,           \* the partial models update returned, merged in order
    logged,           \* what the latest step passed to LoggerService
    cycle,            \* record about the current or last dispatch cycle
    escaped           \* an error left a dispatch call

hostVars == <<model, stateQueue, rendered, renders, dirty, mounted, latest, dispatchRef>>
confVars == <<initResult, subscription, LoggerService, dispatchMiddleware, update, props>>
closureVars == <<initializedModel, reentered, buffer, currentModel>>
loopVars == <<pc, nextMsg, modified, cmdLen, cmdIdx>>
topVars == <<topPc, topLen, topIdx, destructor>>
obsVars == <<nDispatched, ignored, processed, called, effThrew, topCalled,
             initCalls, initCmdRuns, subCalls, subArg, subCmdRuns,
             destructorCalls, mwCalls, mwSeen, names, merged, logged, cycle,
             escaped>>
vars == <<hostVars, confVars, closureVars, loopVars, topVars, obsVars>>

\* ------------------------------------------------------------ host state
\* setModel(value) and setModel(prevModel => ...) as queued updates.
ValueUpdate(v) == [kind |-> "value", value |-> v]
Updater == [kind |-> "updater", value |-> Null]

\* A bug: the updater returns the accumulated partial models alone.
UpdatedModelDropsPrev(prevModel) == Obj("fresh", currentModel)

\* The updater of lines 87-93: { ...prevModel, ...currentModel }.
UpdatedModel(prevModel) == Obj("fresh", Merge(prevModel.props, currentModel))

ApplyUpdate(m, u) == IF u.kind = "value" THEN u.value ELSE UpdatedModel(m)

RECURSIVE ApplyQueue(_, _)
ApplyQueue(m, q) ==
    IF q = <<>> THEN m ELSE ApplyQueue(ApplyUpdate(m, Head(q)), Tail(q))

Updaters(q) == Cardinality({i \in 1..Len(q) : q[i].kind = "updater"})

\* ------------------------------------------------------------ update logic
\* A message: the number of the dispatch call that passed it, and its name.
Msg(k) == [id |-> k, name |-> names[k]]

\* The names a dispatched message can have.  With a function for update the
\* hook passes the name to the logger only, and one name stands for all; with
\* a map: a name with a handler, one without, and one Object.prototype has.
MsgNames ==
    IF update.type = "function"
    THEN {"Increment"}
    ELSE update.own \cup {"Unknown"} \cup ObjectPrototype

\* updateMap[name]: the own property, else the inherited one, else undefined.
Lookup(updateMap, name) ==
    IF name \in updateMap.own THEN <<"own", name>>
    ELSE IF name \in ObjectPrototype THEN <<"Object.prototype", name>>
    ELSE <<"undefined", "">>

\* A bug: the handler is passed the arguments in the order of an update function.
callUpdateMapArgsAsFunction(updateMap, msg, workingModel, p) ==
    [handler |-> Lookup(updateMap, msg.name), args |-> <<workingModel, msg, p>>]

\* Lines 132-136: the invocation callUpdateMap makes.
callUpdateMap(updateMap, msg, workingModel, p) ==
    [handler |-> Lookup(updateMap, msg.name), args |-> <<msg, workingModel, p>>]

\* Lines 124-130: the invocation callUpdate makes.
callUpdate(upd, msg, workingModel, p) ==
    IF upd.type = "function"
    THEN [handler |-> <<"update", "">>, args |-> <<workingModel, msg, p>>]
    ELSE callUpdateMap(upd, msg, workingModel, p)

\* ------------------------------------------------------------ dispatch
\* A bug: lines 44-46 missing.
UninitializedNever == FALSE

\* Line 44: if (!initializedModel) return;
Uninitialized == initializedModel = Null

\* A bug: line 48 without the test for own properties.
modelHasChangedAnyObject(updatedModel) == updatedModel.ref # initializedModel.ref

\* Line 48.
modelHasChanged(updatedModel) ==
    /\ updatedModel.ref # initializedModel.ref
    /\ DOMAIN updatedModel.props # {}

\* A bug: unshift instead of push.
PushFront(buf, msg) == <<msg>> \o buf

\* Line 55: buffer.push(msg).
Push(buf, msg) == Append(buf, msg)

\* Line 67: { ...initializedModel, ...currentModel }, a new object.
Working == Obj("work", Merge(initializedModel.props, currentModel))

\* A bug: dispatch re-created on every render, using the latest options.
ClosureOptionsLatest == latest

\* Lines 43-96: dispatch is memoized with no dependencies, update and props in
\* it are those of the first render.
ClosureOptions == [props |-> props, update |-> update]

\* Line 67: the call of callUpdate for nextMsg.
UpdateCall == callUpdate(ClosureOptions.update, Msg(nextMsg), Working, ClosureOptions.props)

\* The handler is application code: it returns a result or throws.  If not,
\* it is undefined (the call throws a TypeError) or Object.prototype.toString.
Callable(call) == call.handler[1] \in {"update", "own"}

\* Object.prototype.toString returns "[object Object]"; line 67 destructures
\* it into newModel "[" and cmd "o"; { ..."[" } is { 0: "[" } (91 for "[").
StringProps == [k \in {"0"} |-> 91]

\* A bug: the middleware called after lines 54-61.
MiddlewareSeesLate == processed' \o buffer'

\* Line 51: the messages queued or processed when dispatchMiddleware is called.
MiddlewareSees == processed \o buffer

\* The message of this dispatch call gets its name.
NameMessage == \E n \in MsgNames : names' = Append(names, n)

\* A bug: modified assigned the result of the test for every message.
ModifiedByLastOnly(before, changed) == changed

\* Lines 60 and 69-73: modified, once set, stays set for the cycle.
Modified(before, changed) == before \/ changed

\* What update may return as its partial model: a new object with any
\* properties, the object it received, or the initial model object.
UpdateResults == {Obj("fresh", p) : p \in Partials} \cup {Working, initializedModel}

\* Per cycle, kept until the step after the outermost dispatch call returned
\* (done): the message of that call, setModel calls, did every update return the object it received, did
\* every update return an empty object, did an update change the working
\* model, how many updates threw.
NewCycle == [first |-> 0, writes |-> 0, allSame |-> TRUE, allEmpty |-> TRUE,
             changed |-> FALSE, threw |-> 0, done |-> FALSE]

\* LoggerService?.error(ex) and LoggerService?.debug("Elm", "update model for", ...):
\* the events of one step, none without a logger.
NoLog == [error |-> 0, update |-> 0]
Log(e, u) == IF LoggerService THEN [error |-> e, update |-> u] ELSE NoLog

\* A bug: no test of reentered at line 54, a call made during a cycle calls
\* update at once.
DispatchWithoutGuard(msg) ==
    /\ ignored' = ignored
    /\ mwCalls' = IF dispatchMiddleware THEN Append(mwCalls, msg) ELSE mwCalls
    /\ reentered' = TRUE
    /\ nextMsg' = msg
    /\ modified' = FALSE
    /\ pc' = "update"
    /\ processed' = Append(processed, msg)
    /\ cycle' = [NewCycle EXCEPT !.first = msg]
    /\ buffer' = buffer
    /\ mwSeen' = IF dispatchMiddleware THEN MiddlewareSees ELSE mwSeen

\* Lines 43-61: the call of dispatch(msg) up to the first loop iteration.
Dispatch(msg) ==
    IF Uninitialized
    THEN /\ ignored' = ignored + 1
         /\ cycle' = NewCycle
         /\ UNCHANGED <<mwCalls, mwSeen, buffer, reentered, nextMsg, modified, pc,
                        processed>>
    ELSE /\ ignored' = ignored
         /\ mwCalls' = IF dispatchMiddleware THEN Append(mwCalls, msg) ELSE mwCalls
         /\ IF reentered
            THEN /\ buffer' = Push(buffer, msg)
                 /\ UNCHANGED <<reentered, nextMsg, modified, pc, processed, cycle>>
            ELSE /\ reentered' = TRUE
                 /\ nextMsg' = msg
                 /\ modified' = FALSE
                 /\ pc' = "update"
                 /\ processed' = Append(processed, msg)
                 /\ cycle' = [NewCycle EXCEPT !.first = msg]
                 /\ buffer' = buffer
         /\ mwSeen' = IF dispatchMiddleware THEN MiddlewareSees ELSE mwSeen

\* Lines 82-94: nextMsg = buffer.shift(); the loop goes on with it, or ends,
\* clears the flag and commits once when modified (mod: the local modified,
\* which is gone when the call returns).
EndMessage(mod, cyc) ==
    IF buffer # <<>>
    THEN /\ nextMsg' = Head(buffer)
         /\ buffer' = Tail(buffer)
         /\ pc' = "update"
         /\ processed' = Append(processed, Head(buffer))
         /\ modified' = mod
         /\ cycle' = cyc
         /\ UNCHANGED <<reentered, stateQueue>>
    ELSE /\ nextMsg' = 0
         /\ modified' = FALSE
         /\ buffer' = buffer
         /\ pc' = "idle"
         /\ processed' = processed
         /\ reentered' = FALSE
         /\ stateQueue' = IF mod THEN Append(stateQueue, Updater) ELSE stateQueue
         /\ cycle' = [cyc EXCEPT !.writes = IF mod THEN @ + 1 ELSE @, !.done = TRUE]

\* A bug: no try/catch around the call, a throwing effect ends the list.
NextEffectStopsOnThrow(idx, len, thrown) == IF idx < len /\ ~thrown THEN idx + 1 ELSE 0

\* Lines 34-40: forEach goes on to the next effect whether or not this one
\* threw; 0 when the list is done.
NextEffect(idx, len, thrown) == IF idx < len THEN idx + 1 ELSE 0

\* A bug: the try/catch around the loop instead of inside it, an exception of
\* update ends the cycle with the buffered messages left behind.
CaughtOutsideLoop(mod, cyc) ==
    /\ nextMsg' = 0
    /\ modified' = FALSE
    /\ buffer' = buffer
    /\ pc' = "idle"
    /\ processed' = processed
    /\ reentered' = FALSE
    /\ stateQueue' = stateQueue
    /\ cycle' = [cyc EXCEPT !.done = TRUE]

\* A bug: the try block around the loop and line 84, an exception of update
\* ends the call with the flag set.
CaughtBeforeFlagReset(mod, cyc) ==
    /\ nextMsg' = 0
    /\ modified' = FALSE
    /\ buffer' = buffer
    /\ pc' = "idle"
    /\ processed' = processed
    /\ reentered' = reentered
    /\ stateQueue' = stateQueue
    /\ cycle' = [cyc EXCEPT !.done = TRUE]

\* Lines 78-82: the catch block is inside the loop, which goes on.
Caught(mod, cyc) == EndMessage(mod, cyc)

\* A bug: line 102 missing.
InitWriteMissing(v) == <<>>

\* Line 102: setModel(initializedModel), the queue of the useState cell after it.
InitWrite(v) == <<ValueUpdate(v)>>

\* ------------------------------------------------------------ frames
lifeObs == <<initCalls, initCmdRuns, subCalls, subArg, subCmdRuns, destructorCalls>>
dispatchFrame == <<model, stateQueue, rendered, renders, dirty, mounted, latest,
                   dispatchRef, confVars, initializedModel, currentModel, cmdLen,
                   cmdIdx, topVars, called, effThrew, topCalled, lifeObs, merged,
                   escaped>>
loopFrame == <<model, rendered, renders, dirty, mounted, latest, dispatchRef, confVars,
               initializedModel, topVars, nDispatched, ignored, topCalled, lifeObs,
               mwCalls, mwSeen, names, escaped>>

HostIdle == topPc = "none" /\ pc = "idle"

\* ------------------------------------------------------------ actions
\* Lines 43 and 96: useCallback with no dependencies returns the function the
\* first render created.
MemoizedDispatch == IF renders = 0 THEN renders + 1 ELSE dispatchRef

\* The hook body, lines 25-31 and 98-107 and 121, with the queued setModel
\* calls applied by useState.  c is the length of init's command list.
HookBody(c) ==
    /\ HostIdle
    /\ mounted # "gone"
    /\ renders < MaxRenders
    /\ LET m == ApplyQueue(model, stateQueue)
       IN  /\ renders' = renders + 1
           /\ logged' = Log(0, Updaters(stateQueue))
           /\ dispatchRef' = MemoizedDispatch
           /\ model' = m
           /\ IF m = Null
              THEN /\ initCalls' = initCalls + 1
                   /\ initializedModel' = IF renders = 0 THEN initResult ELSE initializedModel
                   /\ rendered' = initResult
                   /\ stateQueue' = InitWrite(initResult)
                   /\ dirty' = TRUE
                   /\ IF c > 0
                      THEN /\ topPc' = "init"
                           /\ topLen' = c
                           /\ topIdx' = 1
                           /\ topCalled' = <<1>>
                           /\ initCmdRuns' = initCmdRuns + 1
                      ELSE UNCHANGED <<topPc, topLen, topIdx, topCalled, initCmdRuns>>
              ELSE /\ c = 0
                   /\ rendered' = m
                   /\ stateQueue' = <<>>
                   /\ dirty' = FALSE
                   /\ UNCHANGED <<initCalls, initializedModel, topPc, topLen, topIdx,
                                  topCalled, initCmdRuns>>
    /\ UNCHANGED <<mounted, confVars, reentered, buffer, currentModel, loopVars,
                   destructor, nDispatched, ignored, processed, called, effThrew,
                   subCalls, subArg, subCmdRuns, destructorCalls, mwCalls, mwSeen,
                   names, merged, escaped>>
    /\ cycle' = NewCycle

\* A render with the options of the render before.
Render(c) == HookBody(c) /\ latest' = latest

\* A later render with other props, or another update option.
RenderWithOptions(o) ==
    /\ renders > 0
    /\ o # latest
    /\ HookBody(0)
    /\ latest' = o

\* A bug: no dependency list, the effect runs after every render.
MountDueEveryRender == mounted # "gone"

\* Line 119: the dependency list [] runs the effect after the first commit only.
MountDue == mounted = "no"

\* The effect of lines 109-119.  d: the subscription returns a destructor;
\* c: the length of its command list.
Mount(d, c) ==
    /\ HostIdle
    /\ renders > 0
    /\ ~dirty
    /\ MountDue
    /\ mounted # "gone"
    /\ mounted' = "yes"
    /\ IF subscription
       THEN /\ subCalls' = subCalls + 1
            /\ subArg' = rendered
            /\ destructor' = d
            /\ IF c > 0
               THEN /\ topPc' = "sub"
                    /\ topLen' = c
                    /\ topIdx' = 1
                    /\ topCalled' = <<1>>
                    /\ subCmdRuns' = subCmdRuns + 1
               ELSE UNCHANGED <<topPc, topLen, topIdx, topCalled, subCmdRuns>>
       ELSE /\ c = 0
            /\ ~d
            /\ UNCHANGED <<subCalls, subArg, destructor, topPc, topLen, topIdx,
                           topCalled, subCmdRuns>>
    /\ UNCHANGED <<model, stateQueue, rendered, renders, dirty, latest, dispatchRef,
                   confVars, closureVars, loopVars, nDispatched, ignored, processed,
                   called, effThrew, initCalls, initCmdRuns, destructorCalls, mwCalls,
                   mwSeen, names, merged, escaped>>
    /\ cycle' = NewCycle
    /\ logged' = NoLog

\* Teardown: the host calls the cleanup the mount effect returned.
Unmount ==
    /\ HostIdle
    /\ ~dirty
    /\ mounted = "yes"
    /\ mounted' = "gone"
    /\ destructorCalls' = IF destructor THEN destructorCalls + 1 ELSE destructorCalls
    /\ UNCHANGED <<model, stateQueue, rendered, renders, dirty, latest, dispatchRef,
                   confVars, closureVars, loopVars, topVars, nDispatched, ignored,
                   processed, called, effThrew, topCalled, initCalls, initCmdRuns,
                   subCalls, subArg, subCmdRuns, mwCalls, mwSeen, names, merged,
                   escaped>>
    /\ cycle' = NewCycle
    /\ logged' = NoLog

\* dispatch called by an event handler or an asynchronous callback.
ExternalDispatch ==
    /\ HostIdle
    /\ renders > 0
    /\ ~dirty
    /\ mounted # "gone"
    /\ nDispatched < MaxMsgs
    /\ nDispatched' = nDispatched + 1
    /\ NameMessage
    /\ Dispatch(nDispatched + 1)
    /\ logged' = NoLog
    /\ UNCHANGED dispatchFrame

\* dispatch called by an effect of the initial or the subscription's command
\* list, line 36 under lines 105 and 113.
TopEffectDispatch ==
    /\ topPc # "none"
    /\ pc = "idle"
    /\ nDispatched < MaxMsgs
    /\ nDispatched' = nDispatched + 1
    /\ NameMessage
    /\ Dispatch(nDispatched + 1)
    /\ logged' = NoLog
    /\ UNCHANGED dispatchFrame

\* dispatch called while a cycle runs: by update, or by an effect of the
\* command list under line 76.
ReentrantDispatch ==
    /\ pc # "idle"
    /\ pc = "update" => Callable(UpdateCall)
    /\ nDispatched < MaxMsgs
    /\ nDispatched' = nDispatched + 1
    /\ NameMessage
    /\ Dispatch(nDispatched + 1)
    /\ logged' = NoLog
    /\ UNCHANGED dispatchFrame

\* Lines 67-77 and on: callUpdate returned [u, cmd], cmd of c effects.
UpdateReturns(u, c) ==
    /\ pc = "update"
    /\ Callable(UpdateCall)
    /\ merged' = Merge(merged, u.props)
    /\ LET changed == modelHasChanged(u)
           cur == IF changed THEN Merge(currentModel, u.props) ELSE currentModel
           mod == Modified(modified, changed)
           cyc == [cycle EXCEPT !.allSame = @ /\ u.ref = "work",
                                !.allEmpty = @ /\ DOMAIN u.props = {},
                                !.changed = @ \/ Merge(initializedModel.props, cur) # Working.props]
       IN  /\ currentModel' = cur
           /\ IF c > 0
              THEN /\ pc' = "effect"
                   /\ cmdLen' = c
                   /\ cmdIdx' = 1
                   /\ called' = <<1>>
                   /\ modified' = mod
                   /\ cycle' = cyc
                   /\ UNCHANGED <<nextMsg, buffer, processed, reentered, stateQueue>>
              ELSE /\ UNCHANGED <<cmdLen, cmdIdx, called>>
                   /\ EndMessage(mod, cyc)
    /\ logged' = NoLog
    /\ UNCHANGED effThrew
    /\ UNCHANGED loopFrame

\* Lines 78-80 and on: callUpdate threw.
UpdateThrows ==
    /\ pc = "update"
    /\ UpdateCall.handler[1] # "Object.prototype"
    /\ logged' = Log(1, 0)
    /\ Caught(modified, [cycle EXCEPT !.allSame = FALSE, !.allEmpty = FALSE,
                                       !.threw = @ + 1])
    /\ UNCHANGED <<currentModel, cmdLen, cmdIdx, called, effThrew, merged>>
    /\ UNCHANGED loopFrame

\* Lines 67-80 when updateMap[msg.name] is Object.prototype.toString: the
\* string it returns is destructured, its first character is merged as a
\* partial model, and execCmd("o") throws inside the try block.
InheritedReturns ==
    /\ pc = "update"
    /\ UpdateCall.handler[1] = "Object.prototype"
    /\ currentModel' = Merge(currentModel, StringProps)
    /\ logged' = Log(1, 0)
    /\ EndMessage(TRUE, [cycle EXCEPT !.allSame = FALSE, !.allEmpty = FALSE,
                                      !.changed = TRUE])
    /\ UNCHANGED <<cmdLen, cmdIdx, called, effThrew, merged>>
    /\ UNCHANGED loopFrame

\* Lines 34-40 under line 76: the running effect of the command list ends,
\* by returning or by throwing.
CmdEffectEnds(thrown) ==
    /\ pc = "effect"
    /\ logged' = IF thrown THEN Log(1, 0) ELSE NoLog
    /\ LET n == NextEffect(cmdIdx, cmdLen, thrown)
       IN  IF n > 0
           THEN /\ cmdIdx' = n
                /\ called' = Append(called, n)
                /\ effThrew' = IF thrown THEN effThrew \cup {cmdIdx} ELSE effThrew
                /\ UNCHANGED <<cmdLen, nextMsg, buffer, pc, processed, reentered,
                               stateQueue, modified, cycle>>
           ELSE /\ cmdLen' = 0
                /\ cmdIdx' = 0
                /\ called' = <<>>
                /\ effThrew' = {}
                /\ EndMessage(modified, cycle)
    /\ UNCHANGED <<currentModel, merged>>
    /\ UNCHANGED loopFrame

CmdEffectReturns == CmdEffectEnds(FALSE)

CmdEffectThrows == CmdEffectEnds(TRUE)

\* Lines 34-40 under lines 105 and 113: the running effect of the initial or
\* the subscription's command list ends.
TopEffectEnds(thrown) ==
    /\ topPc # "none"
    /\ pc = "idle"
    /\ logged' = IF thrown THEN Log(1, 0) ELSE NoLog
    /\ LET n == NextEffect(topIdx, topLen, thrown)
       IN  IF n > 0
           THEN /\ topIdx' = n
                /\ topCalled' = Append(topCalled, n)
                /\ UNCHANGED <<topPc, topLen>>
           ELSE /\ topPc' = "none"
                /\ topLen' = 0
                /\ topIdx' = 0
                /\ topCalled' = <<>>
    /\ UNCHANGED <<hostVars, confVars, closureVars, loopVars, destructor,
                   nDispatched, ignored, processed, called, effThrew, lifeObs,
                   mwCalls, mwSeen, names, merged, escaped>>
    /\ cycle' = NewCycle

TopEffectReturns == TopEffectEnds(FALSE)

TopEffectThrows == TopEffectEnds(TRUE)

\* ------------------------------------------------------------ specifications
InitCommon ==
    /\ model = Null
    /\ stateQueue = <<>>
    /\ rendered = Null
    /\ renders = 0
    /\ dirty = FALSE
    /\ mounted = "no"
    /\ subscription \in BOOLEAN
    /\ LoggerService \in BOOLEAN
    /\ dispatchMiddleware = LoggerService
    /\ initializedModel = Null
    /\ reentered = FALSE
    /\ buffer = <<>>
    /\ currentModel = Empty
    /\ pc = "idle"
    /\ nextMsg = 0
    /\ modified = FALSE
    /\ cmdLen = 0
    /\ cmdIdx = 0
    /\ topPc = "none"
    /\ topLen = 0
    /\ topIdx = 0
    /\ destructor = FALSE
    /\ nDispatched = 0
    /\ ignored = 0
    /\ processed = <<>>
    /\ called = <<>>
    /\ effThrew = {}
    /\ topCalled = <<>>
    /\ initCalls = 0
    /\ initCmdRuns = 0
    /\ subCalls = 0
    /\ subArg = Null
    /\ subCmdRuns = 0
    /\ destructorCalls = 0
    /\ mwCalls = <<>>
    /\ mwSeen = <<>>
    /\ names = <<>>
    /\ merged = Empty
    /\ latest = [props |-> props, update |-> update]
    /\ dispatchRef = 0
    /\ logged = NoLog
    /\ cycle = NewCycle
    /\ escaped = FALSE

\* The options of Spec: a function for update.
InitOptions == update = UpdateFunction /\ props = [id |-> 1]

Init == InitOptions /\ InitCommon /\ initResult = Obj("init", InitProps)

Next ==
    \/ \E c \in 0..MaxCmdLen : Render(c)
    \/ \E d \in BOOLEAN, c \in 0..MaxCmdLen : Mount(d, c)
    \/ Unmount
    \/ ExternalDispatch
    \/ TopEffectDispatch
    \/ ReentrantDispatch
    \/ \E u \in UpdateResults, c \in 0..MaxCmdLen : UpdateReturns(u, c)
    \/ UpdateThrows
    \/ CmdEffectReturns
    \/ CmdEffectThrows
    \/ TopEffectReturns
    \/ TopEffectThrows

Spec == Init /\ [][Next]_vars

\* init returns a falsy model: initializedModel stays unset, the hook body
\* calls init on every render, and no cycle ever starts.
InitFalsy == InitOptions /\ InitCommon /\ initResult = Null

NextFalsy ==
    \/ \E c \in 0..MaxCmdLen : Render(c)
    \/ TopEffectDispatch
    \/ TopEffectReturns
    \/ TopEffectThrows

SpecFalsy == InitFalsy /\ [][NextFalsy]_vars

\* Some code is running that can call dispatch: update or an effect, or an
\* event handler or asynchronous callback of the rendered component.
CanDispatch ==
    \/ pc # "idle"
    \/ topPc # "none"
    \/ renders > 0 /\ ~dirty /\ mounted # "gone"

hookFrame == <<hostVars, confVars, initializedModel, buffer, currentModel, cmdLen,
               cmdIdx, topVars, ignored, processed, called, effThrew, topCalled,
               lifeObs, merged>>

\* Line 51: dispatchMiddleware(msg) throws; the call of dispatch ends there.
MiddlewareThrows ==
    /\ CanDispatch
    /\ ~Uninitialized
    /\ dispatchMiddleware
    /\ nDispatched < MaxMsgs
    /\ nDispatched' = nDispatched + 1
    /\ mwCalls' = Append(mwCalls, nDispatched + 1)
    /\ NameMessage
    /\ escaped' = TRUE
    /\ logged' = NoLog
    /\ UNCHANGED <<reentered, pc, nextMsg, modified, cycle>>
    /\ UNCHANGED hookFrame
    /\ mwSeen' = MiddlewareSees

\* Line 63 in the first iteration of a call that starts a cycle:
\* LoggerService.info throws outside the try block, after line 57.
InfoHookThrows ==
    /\ CanDispatch
    /\ pc = "idle"
    /\ ~Uninitialized
    /\ LoggerService
    /\ ~reentered
    /\ nDispatched < MaxMsgs
    /\ nDispatched' = nDispatched + 1
    /\ mwCalls' = IF dispatchMiddleware THEN Append(mwCalls, nDispatched + 1) ELSE mwCalls
    /\ NameMessage
    /\ reentered' = TRUE
    /\ escaped' = TRUE
    /\ logged' = NoLog
    /\ cycle' = [NewCycle EXCEPT !.first = nDispatched + 1]
    /\ UNCHANGED <<pc, nextMsg, modified>>
    /\ UNCHANGED hookFrame
    /\ mwSeen' = IF dispatchMiddleware THEN MiddlewareSees ELSE mwSeen

\* Line 79: update threw and LoggerService.error throws in the catch block;
\* the exception leaves the loop before lines 82 and 84.
ErrorHookThrows ==
    /\ pc = "update"
    /\ LoggerService
    /\ pc' = "idle"
    /\ nextMsg' = 0
    /\ modified' = FALSE
    /\ escaped' = TRUE
    /\ logged' = Log(1, 0)
    /\ cycle' = [cycle EXCEPT !.allSame = FALSE, !.allEmpty = FALSE, !.threw = @ + 1]
    /\ UNCHANGED <<reentered, nDispatched, mwCalls, mwSeen, names>>
    /\ UNCHANGED hookFrame

InitHooks == Init /\ LoggerService /\ dispatchMiddleware

NextHooks ==
    \/ Next
    \/ MiddlewareThrows
    \/ InfoHookThrows
    \/ ErrorHookThrows

SpecHooks == InitHooks /\ [][NextHooks]_vars

\* update is a function or a map of two handlers, the hooks are installed and
\* return normally, and no subscription is passed: the mount effect and the
\* teardown do nothing then, and are left out.
InitMap ==
    /\ update \in {UpdateFunction, UpdateMap({"Increment", "Decrement"})}
    /\ props = [id |-> 1]
    /\ InitCommon
    /\ ~subscription
    /\ LoggerService
    /\ initResult = Obj("init", InitProps)

NextMap ==
    \/ \E c \in 0..MaxCmdLen : Render(c)
    \/ ExternalDispatch
    \/ TopEffectDispatch
    \/ ReentrantDispatch
    \/ \E u \in UpdateResults, c \in 0..MaxCmdLen : UpdateReturns(u, c)
    \/ UpdateThrows
    \/ InheritedReturns
    \/ CmdEffectReturns
    \/ CmdEffectThrows
    \/ TopEffectReturns
    \/ TopEffectThrows

SpecMap == InitMap /\ [][NextMap]_vars

\* The options a later render can pass: any props, a function or a map.
Options == [props : PropsVals, update : {UpdateFunction, UpdateMap({"Increment"})}]

\* Later renders may pass other options than the first.  No hook is installed
\* and no subscription is passed: the mount effect and the teardown do
\* nothing then, and are left out.
InitAnyProps ==
    /\ InitOptions
    /\ InitCommon
    /\ ~LoggerService
    /\ ~subscription
    /\ initResult = Obj("init", InitProps)

NextProps ==
    \/ \E c \in 0..MaxCmdLen : Render(c)
    \/ \E o \in Options : RenderWithOptions(o)
    \/ ExternalDispatch
    \/ TopEffectDispatch
    \/ ReentrantDispatch
    \/ \E u \in UpdateResults, c \in 0..MaxCmdLen : UpdateReturns(u, c)
    \/ UpdateThrows
    \/ CmdEffectReturns
    \/ CmdEffectThrows
    \/ TopEffectReturns
    \/ TopEffectThrows

SpecProps == InitAnyProps /\ [][NextProps]_vars

\* ------------------------------------------------------------ properties
\* The messages passed to dispatch so far, in call order.
Issued == [i \in 1..nDispatched |-> i]

UpTo(n) == [i \in 1..n |-> i]

\* C1: the messages handed to update, followed by the buffered ones, are the
\* messages passed to dispatch, each once and in call order; when the
\* outermost dispatch call has returned, all of them were handed to update.
C1_ProcessedOnceInOrder ==
    /\ processed \o buffer = Issued
    /\ pc = "idle" => processed = Issued

\* One outer call (message 1), two messages dispatched while its cycle ran,
\* and the call has returned.
C1_Witness ==
    /\ cycle.done
    /\ cycle.first = 1
    /\ processed = <<1, 2, 3>>

\* The step in which callUpdate throws.
UpdateThrew == pc = "update" /\ cycle'.threw = cycle.threw + 1

\* C2: the step in which update throws for a message leaves currentModel and
\* the local modified as they were, starts no command, and goes on with the
\* head of the buffer, or ends the cycle with one write exactly if an earlier
\* update had modified the model.
C2_ThrowingUpdateIsSkipped ==
    [][UpdateThrew =>
        /\ currentModel' = currentModel
        /\ pc' # "effect"
        /\ called' = <<>>
        /\ processed' \o buffer' = processed \o buffer
        /\ IF buffer # <<>>
           THEN /\ pc' = "update"
                /\ nextMsg' = Head(buffer)
                /\ modified' = modified
                /\ stateQueue' = stateQueue
           ELSE /\ pc' = "idle"
                /\ ~reentered'
                /\ Len(stateQueue') = Len(stateQueue) + (IF modified THEN 1 ELSE 0)]_vars

\* An update threw after another had modified the model, and the next
\* buffered message is with update.
C2_Witness ==
    /\ pc = "update"
    /\ cycle.threw > 0
    /\ modified
    /\ currentModel # Empty

\* C3: the effects of a command list are invoked once each in list order, the
\* list ends after its last effect only, whether or not effects threw, and
\* the end of an effect (a return or a throw) leaves currentModel and the
\* local modified alone and lets the loop take the next buffered message.
C3_EveryEffectRuns ==
    /\ [](pc = "effect" => called = UpTo(cmdIdx) /\ cmdIdx \in 1..cmdLen)
    /\ [](topPc # "none" => topCalled = UpTo(topIdx) /\ topIdx \in 1..topLen)
    /\ [][pc = "effect" /\ called' # called =>
            /\ currentModel' = currentModel
            /\ IF cmdIdx < cmdLen
               THEN pc' = "effect" /\ called' = Append(called, cmdIdx + 1)
                    /\ modified' = modified /\ buffer' = buffer
               ELSE /\ processed' \o buffer' = processed \o buffer
                    /\ IF buffer # <<>>
                       THEN pc' = "update" /\ nextMsg' = Head(buffer) /\ modified' = modified
                       ELSE pc' = "idle"]_vars
    /\ [][topPc # "none" /\ topCalled' # topCalled /\ renders' = renders /\ mounted' = mounted =>
            IF topIdx < topLen
            THEN topPc' = topPc /\ topCalled' = Append(topCalled, topIdx + 1)
            ELSE topPc' = "none"]_vars

\* The first effect of a list threw and the second one is running, with the
\* model change of the message kept.
C3_Witness ==
    /\ pc = "effect"
    /\ cmdIdx = 2
    /\ 1 \in effThrew
    /\ modified
    /\ currentModel # Empty

\* C4 as claimed: a cycle in which every update returned the very object it
\* received performs no host-state write.  (The code compares the result with
\* initializedModel, and the object update receives is a new one.)
C4_SameObjectNeverWrites == cycle.done /\ cycle.allSame => cycle.writes = 0

\* C5: a cycle in which every update returned an object without own
\* properties performs no host-state write, and an "update model for" event
\* is logged for an applied updater only.
C5_EmptyPartialNeverWrites ==
    /\ [](cycle.done /\ cycle.allEmpty => cycle.writes = 0 /\ logged.update = 0)
    /\ [][logged'.update > 0 => logged'.update = Updaters(stateQueue)]_vars

\* One outer call whose cycle processed three messages, every update
\* returning {}.
C5_Witness ==
    /\ cycle.done
    /\ cycle.allEmpty
    /\ cycle.first = 1
    /\ Len(processed) = 3

\* The committed state an updater is applied to: the value of a setModel(value)
\* queued before it, or the cell.
Latest == IF stateQueue # <<>> /\ stateQueue[1].kind = "value"
          THEN stateQueue[1].value.props
          ELSE model.props

\* C6: an outermost dispatch call calls setModel at most once, in its last
\* step, with the buffer empty and the flag cleared; once exactly if an update
\* of the cycle changed the working model; and the state an updater leaves is
\* the latest committed state with the properties of currentModel overwritten.
C6_OneCommitPerCycle ==
    /\ [](cycle.writes <= 1)
    /\ [](cycle.done /\ cycle.changed => cycle.writes = 1)
    /\ [][Updaters(stateQueue') > Updaters(stateQueue) =>
            /\ Updaters(stateQueue') = Updaters(stateQueue) + 1
            /\ pc # "idle" /\ pc' = "idle"
            /\ buffer' = <<>>
            /\ ~reentered'
            /\ cycle'.writes = 1]_vars
    /\ [][renders' > renders /\ Updaters(stateQueue) > 0 =>
            model'.props = [k \in Keys |-> IF k \in DOMAIN currentModel
                                            THEN currentModel[k]
                                            ELSE Latest[k]]]_vars

\* An updater was applied: property a comes from the accumulated partial
\* models, property b from the committed state.
C6_Witness ==
    /\ model.ref = "fresh"
    /\ DOMAIN currentModel = {"a"}
    /\ model.props = [k \in Keys |-> IF k = "a" THEN 1 ELSE 0]

\* C7: the subscription is called once, by the mount effect, after init and
\* with the model the committed render returned; its command list is executed
\* once, whatever the renders and dispatch calls; its destructor is called
\* once, at teardown, and not before.
C7_SubscriptionOnce ==
    /\ [](subCalls = (IF subscription /\ mounted # "no" THEN 1 ELSE 0))
    /\ [](subCmdRuns <= subCalls)
    /\ [](subCalls = 1 => initCalls = 1 /\ subArg # Null)
    /\ [](topPc = "sub" => subCmdRuns = 1 /\ mounted = "yes")
    /\ [](destructorCalls = (IF destructor /\ mounted = "gone" THEN 1 ELSE 0))
    /\ [](destructor => subCalls = 1)
    /\ [][subCalls' # subCalls => subArg' = rendered /\ renders > 0 /\ HostIdle]_vars

\* Torn down after three renders and a dispatch call, with a destructor.
C7_Witness ==
    /\ mounted = "gone"
    /\ destructorCalls = 1
    /\ subCalls = 1
    /\ subCmdRuns = 1
    /\ renders >= 3
    /\ processed # <<>>

\* C8: init is called on the first render and never again; setModel(initModel)
\* is queued before the first initial command runs; the initial command list
\* is executed once; and a dispatch call of an initial command is not ignored
\* but handed to update.
C8_InitOnce ==
    /\ [](initCalls = (IF renders > 0 THEN 1 ELSE 0))
    /\ [](initCmdRuns <= 1)
    /\ [](topPc = "init" =>
            /\ initCmdRuns = 1
            /\ renders = 1
            /\ stateQueue # <<>>
            /\ stateQueue[1] = ValueUpdate(initResult)
            /\ ~Uninitialized)
    /\ [](ignored = 0)
    /\ [](renders > 1 => model # Null)
    /\ [][topPc = "init" /\ pc = "idle" /\ nDispatched' > nDispatched =>
            pc' = "update" /\ processed' = Append(processed, nDispatched')]_vars

\* The message dispatched by the second initial command is with update.
C8_Witness ==
    /\ topPc = "init"
    /\ topIdx = 2
    /\ pc = "update"

\* C9: with the model not initialized every dispatch call returns at line 45:
\* no message is handed to update or buffered, no command list runs, no
\* updater is queued, the flag stays clear and no error leaves the call.
C9_DispatchBeforeInitIsNoOp ==
    /\ initializedModel = Null
    /\ ignored = nDispatched
    /\ processed = <<>>
    /\ buffer = <<>>
    /\ pc = "idle"
    /\ called = <<>>
    /\ Updaters(stateQueue) = 0
    /\ ~reentered
    /\ ~escaped

\* Two dispatch calls of initial commands were made.
C9_Witness ==
    /\ initializedModel = Null
    /\ topPc = "init"
    /\ ignored = 2

\* C10 as claimed: no error leaves a dispatch call, and when no cycle runs
\* every message queued so far was handed to update, whatever the hooks do.
C10_NoErrorEscapes ==
    /\ ~escaped
    /\ pc = "idle" => buffer = <<>>

\* C11: with the middleware installed, every dispatch call, direct or
\* reentrant, passes its message to it once, in that call, and at that moment
\* the message is neither in the buffer nor handed to update; without it no
\* call is recorded.
C11_MiddlewareFirst ==
    /\ [](mwCalls = (IF dispatchMiddleware THEN Issued ELSE <<>>))
    /\ [][nDispatched' > nDispatched /\ dispatchMiddleware =>
            /\ mwCalls' = Append(mwCalls, nDispatched')
            /\ \A i \in 1..Len(mwSeen') : mwSeen'[i] # nDispatched']_vars

\* The middleware was called for a direct call and for two reentrant calls,
\* whose messages are buffered.
C11_Witness ==
    /\ dispatchMiddleware
    /\ mwCalls = <<1, 2, 3>>
    /\ processed = <<1>>
    /\ buffer = <<2, 3>>

\* C12: while the update logic is being called for a message, the one
\* invocation made is update(model, message, props) when update is a function,
\* and, when update is a map with a handler under the message's name, that
\* handler and no other, with (message, model, props).
C12_UpdateResolution ==
    pc = "update" =>
        IF update.type = "function"
        THEN UpdateCall = [handler |-> <<"update", "">>,
                           args |-> <<Working, Msg(nextMsg), props>>]
        ELSE names[nextMsg] \in update.own =>
                UpdateCall = [handler |-> <<"own", names[nextMsg]>>,
                              args |-> <<Msg(nextMsg), Working, props>>]

\* The handler of a buffered message named Decrement is being called, after
\* the handler of Increment changed the model.
C12_Witness ==
    /\ pc = "update"
    /\ update.type = "object"
    /\ names = <<"Increment", "Decrement">>
    /\ nextMsg = 2
    /\ currentModel # Empty

\* C15 as claimed: with a map for update that has no entry for the name of
\* the message being processed, the step that ends the call leaves the
\* accumulated model and the queued writes' cause (the local modified) as they
\* were, starts no command, reports to the error hook, and goes on with the
\* head of the buffer.  (A name Object.prototype has resolves to an inherited
\* function, whose result is merged into the model.)
C15_MissingHandlerIsSkipped ==
    [][/\ pc = "update"
       /\ update.type = "object"
       /\ names[nextMsg] \notin update.own
       /\ processed' \o buffer' = processed \o buffer
       =>
       /\ currentModel' = currentModel
       /\ pc' # "effect"
       /\ logged'.error = 1
       /\ IF buffer # <<>>
          THEN /\ pc' = "update"
               /\ nextMsg' = Head(buffer)
               /\ modified' = modified
               /\ stateQueue' = stateQueue
          ELSE /\ pc' = "idle"
               /\ ~reentered'
               /\ Len(stateQueue') = Len(stateQueue) + (IF modified THEN 1 ELSE 0)]_vars

\* C13 as claimed: the model every update call receives is the initial model
\* shallow-merged with the partial models of all updates that returned before,
\* in processing order.  (A returned partial model that is the initial model
\* object is not merged, line 48.)
C13_UpdateReceivesAllPartials ==
    pc = "update" => UpdateCall.args[1].props = Merge(initResult.props, merged)

\* C14 as claimed: with the logging hooks installed the component takes only
\* steps it also takes without them.  Next reads LoggerService in Log alone,
\* which decides the logged events and nothing else: a step of Next invokes
\* update and the effects and writes host state as the run without a logger
\* does.  (The middleware is not a logging hook, its steps are left as they
\* are.)
C14_LoggerChangesNothing == [][Next \/ MiddlewareThrows]_vars

\* C16: a dispatch call made while a cycle runs appends its message to the end
\* of the buffer and returns; it hands no message to update and leaves the
\* running update, the running command list and the model alone.  One message
\* is with update at a time, and the update for a buffered message starts only
\* when the update of the message before it has ended and the last effect of
\* its command list has ended.
C16_ReentrantOnlyBuffers ==
    /\ [](pc # "idle" => reentered /\ nextMsg = processed[Len(processed)])
    /\ [][nDispatched' > nDispatched /\ reentered =>
            /\ buffer' = Append(buffer, nDispatched')
            /\ processed' = processed
            /\ pc' = pc /\ nextMsg' = nextMsg /\ modified' = modified
            /\ cmdLen' = cmdLen /\ cmdIdx' = cmdIdx /\ called' = called
            /\ currentModel' = currentModel /\ stateQueue' = stateQueue
            /\ reentered']_vars
    /\ [][pc # "idle" /\ processed' # processed =>
            /\ nDispatched' = nDispatched
            /\ processed' = Append(processed, Head(buffer))
            /\ buffer' = Tail(buffer)
            /\ pc' = "update"
            /\ pc = "effect" => cmdIdx = cmdLen /\ called = UpTo(cmdLen)]_vars

\* Two calls were made while message 1 was processed; message 2 is with
\* update, message 3 is buffered.
C16_Witness ==
    /\ cycle.first = 1
    /\ processed = <<1, 2>>
    /\ buffer = <<3>>
    /\ pc = "update"
    /\ ~cycle.done

\* C17: whenever no dispatch call is running, the flag is clear and the buffer
\* is empty, whatever threw in the cycles before; and a dispatch call made
\* then starts a cycle of its own: its message is handed to update in that
\* call and nothing is buffered.
C17_IdleIsClean ==
    /\ [](pc = "idle" => ~reentered /\ buffer = <<>>)
    /\ [][nDispatched' > nDispatched /\ pc = "idle" =>
            /\ pc' = "update"
            /\ reentered'
            /\ nextMsg' = nDispatched'
            /\ processed' = Append(processed, nDispatched')
            /\ buffer' = <<>>
            /\ cycle'.first = nDispatched']_vars

\* The call with message 2 started a cycle after the cycle of message 1; the
\* updates for message 2 and for message 3, dispatched meanwhile, threw, and
\* the call has returned.
C17_Witness ==
    /\ pc = "idle"
    /\ cycle.done
    /\ cycle.first = 2
    /\ cycle.threw = 2
    /\ processed = <<1, 2, 3>>

\* The host state once the queued setModel calls are applied.
Committed == ApplyQueue(model, stateQueue)

\* C18: whenever no dispatch call is running after the first render, the
\* committed host state has the properties of the initial model overwritten by
\* the partial models accumulated in currentModel, which are the properties of
\* the working model the next update call receives.
C18_CommittedIsWorkingModel ==
    pc = "idle" /\ renders > 0 =>
        /\ Committed.props = Merge(initResult.props, currentModel)
        /\ Committed.props = Working.props

\* Idle after a cycle in which an update threw and which wrote nothing, with
\* a model that an earlier cycle changed and a render committed.
C18_Witness ==
    /\ pc = "idle"
    /\ cycle.done
    /\ cycle.threw > 0
    /\ cycle.writes = 0
    /\ currentModel # Empty
    /\ stateQueue = <<>>
    /\ model.props # InitProps

\* C19: every render returns the dispatcher the first render created, and
\* every update call is made with the update logic and the props of the first
\* render, whatever options later renders passed.
C19_DispatcherKeepsFirstOptions ==
    /\ renders > 0 => dispatchRef = 1
    /\ pc = "update" =>
            /\ UpdateCall.handler = <<"update", "">>
            /\ UpdateCall.args[3] = props

\* An update call after a render that passed other props and a map for update.
C19_Witness ==
    /\ pc = "update"
    /\ renders >= 2
    /\ latest.props # props
    /\ latest.update # update

=============================================================================
